---- MODULE Spec2Model ----
(***************************************************************************)
(* A model of jupyter_rfb/_utils.py:                                       *)
(*   - RFBOutputContext: the process-wide print override (SpecCtx),        *)
(*   - remove_rfb_models_from_nb: the notebook pruner (SpecNb),            *)
(*   - array2compressed: the choice of an image encoding (SpecImg).        *)
(* Text is a sequence of one-character strings, so that formatting and     *)
(* substring search are computed and not assumed.                          *)
(***************************************************************************)
EXTENDS Integers, Sequences, FiniteSets, TLC

VARIABLES
    builtins_print,   \* builtins.print: which function is installed process-wide
    installed0,       \* the function installed before any scope was entered
    capture_print,    \* capture_print of each RFBOutputContext instance
    prev_print,       \* _prev_print of each instance ("None" when cleared)
    buffer,           \* what append_stdout/append_stderr got, per instance
    sys_stdout,       \* what the builtin print wrote to the real stdout
    hist,             \* the __enter__/__exit__ calls made so far, in order, each
                      \* with the capture_print of its instance at that time
    call,             \* the last call: its operation, inputs and outcome
    prints,           \* the number of print calls made
    nb0,              \* notebook pruner: the document as given
    nb,               \* notebook pruner: the document (mutated in place)
    nb_call,          \* notebook pruner: "ready", "returned" or the exception raised
    img_in,           \* compressor: array shape, quality, whether array2jpg fails
    jpegxl_usable,    \* compressor: the module-level flag set at import
    img_out,          \* compressor: the (mimetype, bytes) returned
    enc_calls         \* compressor: the encoder calls made, in order

ctxVars == <<builtins_print, installed0, capture_print, prev_print, buffer,
             sys_stdout, hist, call, prints>>
nbVars  == <<nb0, nb, nb_call>>
imgVars == <<img_in, jpegxl_usable, img_out, enc_calls>>
vars    == <<ctxVars, nbVars, imgVars>>

(***************************************************************************)
(* Bounds of the model.                                                    *)
(***************************************************************************)
MaxCalls   == 4      \* calls of __enter__, __exit__ and print in one behaviour
MaxCells   == 2      \* cells of a notebook
MaxOutputs == 2      \* outputs of a cell
MaxQuality == 101    \* the qualities tried are 0..MaxQuality
MaxDim     == 2      \* height and width of an array
MaxChannels == 4     \* channels of a 3-D array

(***************************************************************************)
(* Text helpers.                                                           *)
(***************************************************************************)
\* "sub in s" for two Python strings.
IsSubstring(sub, s) ==
    \E i \in 0..(Len(s) - Len(sub)) : SubSeq(s, i + 1, i + Len(sub)) = sub

(***************************************************************************)
(* RFBOutputContext.                                                       *)
(***************************************************************************)
Instances == {"A", "B"}

\* The functions builtins.print can hold: the interpreter's print, a function
\* the application installed itself (it forwards to the interpreter's print),
\* and the bound method print of each instance.
PrintFns == {"builtin", "custom"} \cup Instances

_original_print == "builtin"

NoKwargs == [k \in {} |-> <<>>]

\* The print calls explored. A keyword value is a text, or <<"None">> for
\* Python's None; "file" holds a stream and "flush" a flag.
PrintCalls ==
    { [args |-> << <<"a">>, <<"b">> >>, kwargs |-> NoKwargs],
      [args |-> << <<"a">>, <<"b">> >>, kwargs |-> ("sep" :> <<"-">>) @@ ("end" :> <<>>)],
      [args |-> << <<"a">>, <<"b">> >>,
       kwargs |-> ("file" :> <<"stream">>) @@ ("sep" :> <<"None">>) @@ ("end" :> <<"!">>)],
      [args |-> << <<"a">> >>,          kwargs |-> ("flush" :> <<"True">>)] }

KwGet(kwargs, key, default) ==
    IF key \in DOMAIN kwargs /\ kwargs[key] # <<"None">> THEN kwargs[key] ELSE default

RECURSIVE Join(_, _)
Join(args, sep) ==
    IF args = <<>> THEN <<>>
    ELSE IF Len(args) = 1 THEN args[1]
    ELSE args[1] \o sep \o Join(Tail(args), sep)

\* What the interpreter's print(*args, sep=.., end=..) writes to its stream.
PrintText(args, kwargs) ==
    Join(args, KwGet(kwargs, "sep", <<" ">>)) \o KwGet(kwargs, "end", <<"\n">>)

\* kwargs.pop(key, None)
KwPop(kwargs, key) == [k \in (DOMAIN kwargs) \ {key} |-> kwargs[k]]

\* traceback.format_exception(etype, value, tb), joined.
FormatException(etype) == <<"Traceback", etype>>

Depth(i) ==
    Cardinality({n \in 1..Len(hist) : hist[n].op = "enter" /\ hist[n].inst = i})
  - Cardinality({n \in 1..Len(hist) : hist[n].op = "exit" /\ hist[n].inst = i})

\* The last call: the operation, the instance it ran on, its inputs, what it
\* returned and what it raised.
Idle == [op |-> "none", inst |-> "none", etype |-> "None", args |-> <<>>,
         kwargs |-> NoKwargs, ret |-> "None", raised |-> "None"]

Event(op, i) == [op |-> op, inst |-> i, flag |-> capture_print[i]]

InitCtxVars ==
    /\ builtins_print \in {"builtin", "custom"}
    /\ installed0 = builtins_print
    /\ capture_print = [i \in Instances |-> FALSE]
    /\ prev_print = [i \in Instances |-> "None"]
    /\ buffer = [i \in Instances |-> <<>>]
    /\ sys_stdout = <<>>
    /\ hist = <<>>
    /\ call = Idle
    /\ prints = 0

\* Assigning the public attribute capture_print of an instance.
SetCapturePrint(i, b) ==
    /\ capture_print[i] # b
    /\ capture_print' = [capture_print EXCEPT ![i] = b]
    /\ call' = [Idle EXCEPT !.op = "set", !.inst = i]
    /\ UNCHANGED <<builtins_print, installed0, prev_print, buffer, sys_stdout, hist,
                   prints>>

\* A variant of EnterInstall that keeps an earlier save on re-entry.
EnterInstall_KeepFirstSave(i) ==
    IF capture_print[i]
    THEN /\ prev_print' = [prev_print EXCEPT ![i] =
                               IF @ = "None" THEN builtins_print ELSE @]
         /\ builtins_print' = i
    ELSE UNCHANGED <<prev_print, builtins_print>>

\* Lines 79-81: save builtins.print and install the instance's print.
EnterInstall(i) ==
    IF capture_print[i]
    THEN /\ prev_print' = [prev_print EXCEPT ![i] = builtins_print]
         /\ builtins_print' = i
    ELSE UNCHANGED <<prev_print, builtins_print>>

RFBOutputContext__enter__(i) ==
    /\ Len(hist) + prints < MaxCalls
    /\ hist' = Append(hist, Event("enter", i))
    /\ EnterInstall(i)
    /\ call' = [Idle EXCEPT !.op = "enter", !.inst = i, !.ret = i]
    /\ UNCHANGED <<installed0, capture_print, buffer, sys_stdout, prints>>

\* A variant of ExitRestore that leaves the saved reference in place.
ExitRestore_NotCleared(i) ==
    IF capture_print[i] /\ prev_print[i] # "None"
    THEN /\ builtins_print' = prev_print[i]
         /\ prev_print' = prev_print
    ELSE UNCHANGED <<prev_print, builtins_print>>

\* A variant of ExitRestore that puts back the interpreter's print.
ExitRestore_Original(i) ==
    IF capture_print[i] /\ prev_print[i] # "None"
    THEN /\ builtins_print' = _original_print
         /\ prev_print' = [prev_print EXCEPT ![i] = "None"]
    ELSE UNCHANGED <<prev_print, builtins_print>>

\* Lines 86-88: put the saved function back and clear the saved reference.
ExitRestore(i) ==
    IF capture_print[i] /\ prev_print[i] # "None"
    THEN /\ builtins_print' = prev_print[i]
         /\ prev_print' = [prev_print EXCEPT ![i] = "None"]
    ELSE UNCHANGED <<prev_print, builtins_print>>

\* A variant of ExitReport that reports the exception and lets it propagate.
ExitReport_NotHandled(i, etype) ==
    IF etype # "None"
    THEN /\ buffer' = [buffer EXCEPT ![i] =
                Append(@, [stream |-> "stderr", text |-> FormatException(etype)])]
         /\ call' = [Idle EXCEPT !.op = "exit", !.inst = i, !.etype = etype]
    ELSE /\ buffer' = buffer
         /\ call' = [Idle EXCEPT !.op = "exit", !.inst = i]

\* Lines 89-92: report the exception of the scope's body, if there is one.
ExitReport(i, etype) ==
    IF etype # "None"
    THEN /\ buffer' = [buffer EXCEPT ![i] =
                Append(@, [stream |-> "stderr", text |-> FormatException(etype)])]
         /\ call' = [Idle EXCEPT !.op = "exit", !.inst = i, !.etype = etype,
                                 !.ret = "True"]
    ELSE /\ buffer' = buffer
         /\ call' = [Idle EXCEPT !.op = "exit", !.inst = i]

\* etype is "None" when the body of the scope raised nothing.
RFBOutputContext__exit__(i, etype) ==
    /\ Depth(i) > 0
    /\ Len(hist) + prints < MaxCalls
    /\ hist' = Append(hist, Event("exit", i))
    /\ ExitRestore(i)
    /\ ExitReport(i, etype)
    /\ UNCHANGED <<installed0, capture_print, sys_stdout, prints>>

\* RFBOutputContext.print of instance i, called with (*args, **kwargs).
RFBOutputContext_print(i, args, kwargs) ==
    LET kw == KwPop(kwargs, "file") IN
    IF "flush" \in DOMAIN kw
    THEN \* _original_print(*args, file=f, flush=True, **kwargs): flush is given twice
         /\ call' = [Idle EXCEPT !.op = "print", !.inst = i, !.args = args,
                                 !.kwargs = kwargs, !.raised = "TypeError"]
         /\ UNCHANGED <<buffer, sys_stdout>>
    ELSE /\ buffer' = [buffer EXCEPT ![i] =
                Append(@, [stream |-> "stdout", text |-> PrintText(args, kw)])]
         /\ call' = [Idle EXCEPT !.op = "print", !.inst = i, !.args = args,
                                 !.kwargs = kwargs]
         /\ UNCHANGED sys_stdout

\* The interpreter's print: writes to the given file, or else to sys.stdout.
BuiltinPrint(args, kwargs) ==
    /\ sys_stdout' = IF "file" \in DOMAIN kwargs THEN sys_stdout
                     ELSE Append(sys_stdout, PrintText(args, kwargs))
    /\ call' = [Idle EXCEPT !.op = "print", !.inst = builtins_print, !.args = args,
                            !.kwargs = kwargs]
    /\ UNCHANGED buffer

\* A call print(*args, **kwargs) anywhere in the process: builtins.print decides.
CallPrint(args, kwargs) ==
    /\ Len(hist) + prints < MaxCalls
    /\ prints' = prints + 1
    /\ IF builtins_print \in Instances
       THEN RFBOutputContext_print(builtins_print, args, kwargs)
       ELSE BuiltinPrint(args, kwargs)
    /\ UNCHANGED <<builtins_print, installed0, capture_print, prev_print, hist>>

CtxSetCapturePrint ==
    /\ \E i \in Instances, b \in BOOLEAN : SetCapturePrint(i, b)
    /\ UNCHANGED <<nbVars, imgVars>>

CtxEnter ==
    /\ \E i \in Instances : RFBOutputContext__enter__(i)
    /\ UNCHANGED <<nbVars, imgVars>>

\* Leaving a scope, normally or with an exception raised in its body.
CtxExit ==
    /\ \E i \in Instances, etype \in {"None", "ValueError"} :
          RFBOutputContext__exit__(i, etype)
    /\ UNCHANGED <<nbVars, imgVars>>

CtxPrint ==
    /\ \E c \in PrintCalls : CallPrint(c.args, c.kwargs)
    /\ UNCHANGED <<nbVars, imgVars>>

(***************************************************************************)
(* remove_rfb_models_from_nb.  A JSON value is a tagged record; a dict is  *)
(* the sequence of its (key, value) pairs in insertion order.              *)
(***************************************************************************)
PyNone      == [t |-> "none", v |-> <<>>]
PyInt(n)    == [t |-> "int",  v |-> n]
PyStr(cs)   == [t |-> "str",  v |-> cs]
PyList(xs)  == [t |-> "list", v |-> xs]
PyDict(kvs) == [t |-> "dict", v |-> kvs]

WidgetView == "application/vnd.jupyter.widget-view+json"
TextHtml   == "text/html"

\* The literal "<div class='snapshot-" of line 162.
Marker == <<"<", "d", "i", "v", " ", "c", "l", "a", "s", "s", "=", "'",
            "s", "n", "a", "p", "s", "h", "o", "t", "-">>

\* bool(x)
Truthy(x) ==
    CASE x.t = "none" -> FALSE
      [] x.t = "int"  -> x.v # 0
      [] OTHER        -> x.v # <<>>

HasKey(d, key) == \E n \in 1..Len(d.v) : d.v[n][1] = key

\* d.get(key, default)
DictGet(d, key, default) ==
    IF HasKey(d, key)
    THEN d.v[CHOOSE n \in 1..Len(d.v) : d.v[n][1] = key][2]
    ELSE default

\* d.pop(key) for every key of keys
DictPopAll(d, keys) ==
    PyDict(SelectSeq(d.v, LAMBDA kv : kv[1] \notin keys))

\* d with the value at position n replaced (a nested object mutated in place)
DictPut(d, n, val) == PyDict([d.v EXCEPT ![n] = <<d.v[n][1], val>>])

Ok(x)       == [val |-> x, exc |-> "None"]
Raise(x, e) == [val |-> x, exc |-> e]

\* x[0], for a truthy x
GetItem0(x) ==
    CASE x.t = "list" -> Ok(x.v[1])
      [] x.t = "str"  -> Ok(PyStr(<<x.v[1]>>))
      [] x.t = "dict" -> Raise(x, "KeyError")
      [] OTHER        -> Raise(x, "TypeError")

\* Marker in x
MarkerIn(x) ==
    CASE x.t = "str"  -> Ok(IsSubstring(Marker, x.v))
      [] x.t = "list" -> Ok(\E n \in 1..Len(x.v) : x.v[n] = PyStr(Marker))
      [] x.t = "dict" -> Ok(HasKey(x, "<div class='snapshot-"))
      [] OTHER        -> Raise(FALSE, "TypeError")

\* A variant of MarksWidgetView that does not look for the marker.
MarksWidgetView_AnyHtml(d) ==
    LET html_sibling == DictGet(d, TextHtml, PyList(<<>>)) IN
    IF ~Truthy(html_sibling) THEN Ok(FALSE)
    ELSE LET first == GetItem0(html_sibling) IN
         IF first.exc # "None" THEN Raise(FALSE, first.exc)
         ELSE Ok(TRUE)

\* Lines 161-163: whether the widget-view key of d is marked for removal.
\* exc is the exception the test raises, if any.
MarksWidgetView(d) ==
    LET html_sibling == DictGet(d, TextHtml, PyList(<<>>)) IN
    IF ~Truthy(html_sibling) THEN Ok(FALSE)
    ELSE LET first == GetItem0(html_sibling) IN
         IF first.exc # "None" THEN Raise(FALSE, first.exc)
         ELSE MarkerIn(first.val)

RECURSIVE remove_rfb_models_from_nb(_)
RECURSIVE VisitCells(_, _)
RECURSIVE VisitOutputs(_, _)
RECURSIVE VisitItems(_, _, _)

\* Lines 153-154: for v in val: remove_rfb_models_from_nb(v), from element n on.
VisitCells(xs, n) ==
    IF n > Len(xs) THEN Ok(xs)
    ELSE LET r   == remove_rfb_models_from_nb(xs[n])
             xs2 == [xs EXCEPT ![n] = r.val]
         IN  IF r.exc # "None" THEN Raise(xs2, r.exc) ELSE VisitCells(xs2, n + 1)

\* A variant of VisitOutputs that prunes the output itself, not its data.
VisitOutputs_Whole(xs, n) ==
    IF n > Len(xs) THEN Ok(xs)
    ELSE LET v == xs[n] IN
         IF v.t # "dict" THEN Raise(xs, "AttributeError")
         ELSE LET r   == remove_rfb_models_from_nb(v)
                  xs2 == [xs EXCEPT ![n] = r.val]
              IN  IF r.exc # "None" THEN Raise(xs2, r.exc)
                  ELSE VisitOutputs(xs2, n + 1)

\* Lines 156-159: for v in val: data = v.get("data", None) ..., from element n on.
VisitOutputs(xs, n) ==
    IF n > Len(xs) THEN Ok(xs)
    ELSE LET v == xs[n] IN
         IF v.t # "dict" THEN Raise(xs, "AttributeError")
         ELSE LET data == DictGet(v, "data", PyNone) IN
              IF ~Truthy(data) THEN VisitOutputs(xs, n + 1)
              ELSE LET r   == remove_rfb_models_from_nb(data)
                       pos == CHOOSE k \in 1..Len(v.v) : v.v[k][1] = "data"
                       xs2 == [xs EXCEPT ![n] = DictPut(v, pos, r.val)]
                   IN  IF r.exc # "None" THEN Raise(xs2, r.exc)
                       ELSE VisitOutputs(xs2, n + 1)

\* Lines 151-165: the loop over d.items() from item n on, then the pops.
VisitItems(d, n, to_remove) ==
    IF n > Len(d.v) THEN Ok(DictPopAll(d, to_remove))
    ELSE LET key == d.v[n][1]
             val == d.v[n][2]
         IN  IF key = "cells" /\ val.t = "list"
             THEN LET r  == VisitCells(val.v, 1)
                      d2 == DictPut(d, n, PyList(r.val))
                  IN  IF r.exc # "None" THEN Raise(d2, r.exc)
                      ELSE VisitItems(d2, n + 1, to_remove)
             ELSE IF key = "outputs" /\ val.t = "list"
             THEN LET r  == VisitOutputs(val.v, 1)
                      d2 == DictPut(d, n, PyList(r.val))
                  IN  IF r.exc # "None" THEN Raise(d2, r.exc)
                      ELSE VisitItems(d2, n + 1, to_remove)
             ELSE IF key = WidgetView
             THEN LET m == MarksWidgetView(d) IN
                  IF m.exc # "None" THEN Raise(d, m.exc)
                  ELSE VisitItems(d, n + 1,
                                  IF m.val THEN to_remove \cup {key} ELSE to_remove)
             ELSE VisitItems(d, n + 1, to_remove)

\* The value of d after the call, and the exception the call raised ("None"
\* when it returned).
remove_rfb_models_from_nb(d) ==
    IF d.t # "dict" THEN Raise(d, "AttributeError")   \* d.items()
    ELSE VisitItems(d, 1, {})

(***************************************************************************)
(* The notebooks explored.                                                 *)
(***************************************************************************)
SnapshotHtml == PyList(<<PyStr(Marker \o <<"f", "'", ">">>)>>)
InnerHtml    == PyList(<<PyStr(<<"x">> \o Marker)>>)
PlainHtml    == PyList(<<PyStr(<<"<", "p", ">">>), PyStr(Marker)>>)
NearHtml     == PyList(<<PyStr(SubSeq(Marker, 1, Len(Marker) - 1))>>)
StringHtml   == PyStr(Marker \o <<"f">>)
Model        == PyDict(<< <<"model_id", PyStr(<<"m">>)>> >>)

KV(k, v) == <<k, v>>

\* "data" mappings of well-formed outputs.
GoodData ==
    { PyDict(<<KV(WidgetView, Model), KV(TextHtml, SnapshotHtml)>>),
      PyDict(<<KV(TextHtml, InnerHtml), KV(WidgetView, Model)>>),
      PyDict(<<KV(WidgetView, Model), KV(TextHtml, SnapshotHtml),
               KV("text/plain", PyStr(<<"p">>))>>),
      PyDict(<<KV(WidgetView, Model), KV(TextHtml, PlainHtml)>>),
      PyDict(<<KV(WidgetView, Model), KV(TextHtml, NearHtml)>>),
      PyDict(<<KV(WidgetView, Model), KV(TextHtml, StringHtml)>>),
      PyDict(<<KV(WidgetView, Model), KV(TextHtml, PyList(<<>>))>>),
      PyDict(<<KV(WidgetView, Model)>>),
      PyDict(<<KV(TextHtml, SnapshotHtml)>>) }

\* "data" values of malformed outputs.
BadData ==
    { PyDict(<<KV(WidgetView, Model), KV(TextHtml, PyInt(5))>>),
      PyDict(<<KV(WidgetView, Model), KV(TextHtml, PyList(<<PyInt(5)>>))>>),
      PyDict(<<KV(TextHtml, PyInt(5))>>),
      PyStr(<<"a">>),
      PyList(<<PyInt(1)>>),
      PyDict(<<>>),
      PyNone }

Output(data) == PyDict(<<KV("output_type", PyStr(<<"d">>)), KV("data", data)>>)

\* An output that itself carries the two keys, next to its data.
MimeOutput(data) ==
    PyDict(<<KV(WidgetView, Model), KV(TextHtml, SnapshotHtml), KV("data", data)>>)

NoDataOutput == PyDict(<<KV("output_type", PyStr(<<"s">>))>>)

AllOutputs ==
    {Output(d) : d \in GoodData \cup BadData}
      \cup {MimeOutput(d) : d \in {PyDict(<<KV(WidgetView, Model), KV(TextHtml, SnapshotHtml)>>),
                                   PyDict(<<KV(WidgetView, Model), KV(TextHtml, PlainHtml)>>)}}
      \cup {NoDataOutput, PyInt(5), PyNone}

\* The outputs combined into longer lists.
FewOutputs ==
    { Output(PyDict(<<KV(WidgetView, Model), KV(TextHtml, SnapshotHtml)>>)),
      Output(PyDict(<<KV(WidgetView, Model), KV(TextHtml, PlainHtml)>>)),
      PyInt(5) }

SeqsUpTo(S, n) == UNION {[1..k -> S] : k \in 0..n}

Cell(outs) == PyDict(<<KV("cell_type", PyStr(<<"c">>)), KV("outputs", PyList(outs))>>)

\* A cell that itself carries the two keys, next to its outputs.
MimeCell(outs) ==
    PyDict(<<KV(WidgetView, Model), KV("outputs", PyList(outs)), KV(TextHtml, SnapshotHtml)>>)

OddCells ==
    { PyDict(<<KV("cell_type", PyStr(<<"m">>))>>),
      PyDict(<<KV("outputs", PyStr(<<"a">>))>>),
      PyInt(5) }

Notebook(cells) == PyDict(<<KV("cells", PyList(cells)), KV("nbformat", PyInt(4))>>)

\* A top-level mapping that itself carries the two keys.
MimeNotebook(cells) ==
    PyDict(<<KV(TextHtml, SnapshotHtml), KV(WidgetView, Model),
             KV("cells", PyList(cells))>>)

Notebooks ==
    LET few   == {Cell(outs) : outs \in SeqsUpTo(FewOutputs, MaxOutputs)}
        one   == {Cell(<<o>>) : o \in AllOutputs} \cup {MimeCell(<<o>>) : o \in FewOutputs}
                    \cup OddCells
        cells == SeqsUpTo(few, MaxCells) \cup {<<c>> : c \in one}
    IN  {Notebook(cs) : cs \in cells}
          \cup {MimeNotebook(<<c>>) : c \in one}
          \cup { PyDict(<<KV("cells", PyStr(<<"a">>)), KV("outputs", PyInt(5))>>),
                 PyDict(<<KV("outputs", PyList(<<Output(PyDict(<<KV(WidgetView, Model),
                                                               KV(TextHtml, SnapshotHtml)>>))>>))>>),
                 PyDict(<<KV(WidgetView, Model), KV(TextHtml, PlainHtml)>>),
                 PyDict(<<>>) }

InitNbVars ==
    /\ nb0 \in Notebooks
    /\ nb = nb0
    /\ nb_call = "ready"

IdleNbVars ==
    /\ nb0 = PyDict(<<>>)
    /\ nb = nb0
    /\ nb_call = "ready"

\* One call remove_rfb_models_from_nb(nb).
NbCall ==
    /\ nb_call = "ready"
    /\ LET r == remove_rfb_models_from_nb(nb) IN
           /\ nb' = r.val
           /\ nb_call' = IF r.exc = "None" THEN "returned" ELSE r.exc
    /\ UNCHANGED <<nb0, ctxVars, imgVars>>

(***************************************************************************)
(* array2compressed.  An array is its shape; a slice keeps the leading     *)
(* channels.  The encoders are outside this file: what they return is      *)
(* a record naming the encoder and what it was given.                      *)
(***************************************************************************)
NoneBytes == [codec |-> "None"]

array2png(array) == [codec |-> "png", array |-> array]

\* Returns None when no JPEG encoder can be used.
array2jpg(array, quality, fails) ==
    IF fails THEN NoneBytes ELSE [codec |-> "jpeg", array |-> array, quality |-> quality]

jpegxl_encode(array, lossless) ==
    [codec |-> "jxl", array |-> array, lossless |-> lossless, effort |-> 1,
     numthreads |-> 4]

\* Lines 38-39: array[:, :, :3] when there is an alpha channel.
DropAlpha(array) ==
    IF Len(array) = 3 /\ array[3] = 4 THEN <<array[1], array[2], 3>> ELSE array

\* Returns the pair and the encoder calls made.
array2compressed_jxl(array, quality) ==
    LET result == IF quality >= 100 THEN jpegxl_encode(array, TRUE)
                  ELSE jpegxl_encode(array, FALSE)
    IN  [mimetype |-> "image/jxl", result |-> result,
         calls |-> <<[fn |-> "jpegxl_encode", array |-> array]>>]

\* A variant of array2compressed that takes only a quality above 100 as lossless.
array2compressed_Above100(array0, quality, usable, jpg_fails) ==
    LET array == DropAlpha(array0) IN
    IF usable THEN array2compressed_jxl(array, quality)
    ELSE IF quality > 100
    THEN [mimetype |-> "image/png", result |-> array2png(array),
          calls |-> <<[fn |-> "array2png", array |-> array]>>]
    ELSE LET result == array2jpg(array, quality, jpg_fails) IN
         IF result.codec = "None"
         THEN [mimetype |-> "image/png", result |-> array2png(array),
               calls |-> <<[fn |-> "array2jpg", array |-> array],
                           [fn |-> "array2png", array |-> array]>>]
         ELSE [mimetype |-> "image/jpeg", result |-> result,
               calls |-> <<[fn |-> "array2jpg", array |-> array]>>]

array2compressed(array0, quality, usable, jpg_fails) ==
    LET array == DropAlpha(array0) IN
    IF usable THEN array2compressed_jxl(array, quality)
    ELSE IF quality >= 100
    THEN [mimetype |-> "image/png", result |-> array2png(array),
          calls |-> <<[fn |-> "array2png", array |-> array]>>]
    ELSE LET result == array2jpg(array, quality, jpg_fails) IN
         IF result.codec = "None"
         THEN [mimetype |-> "image/png", result |-> array2png(array),
               calls |-> <<[fn |-> "array2jpg", array |-> array],
                           [fn |-> "array2png", array |-> array]>>]
         ELSE [mimetype |-> "image/jpeg", result |-> result,
               calls |-> <<[fn |-> "array2jpg", array |-> array]>>]

Shapes ==
    {<<h, w>> : h \in 1..MaxDim, w \in {1, 4}}
      \cup {<<h, w, c>> : h \in 1..MaxDim, w \in {1, 4}, c \in 1..MaxChannels}

Pending == [mimetype |-> "", result |-> NoneBytes, returned |-> FALSE]

InitImgVars ==
    /\ img_in \in [array : Shapes, quality : 0..MaxQuality, jpg_fails : BOOLEAN]
    /\ jpegxl_usable \in BOOLEAN
    /\ img_out = Pending
    /\ enc_calls = <<>>

IdleImgVars ==
    /\ img_in = [array |-> <<1, 1>>, quality |-> 90, jpg_fails |-> FALSE]
    /\ jpegxl_usable = FALSE
    /\ img_out = Pending
    /\ enc_calls = <<>>

\* One call array2compressed(array, quality).
ImgCall ==
    /\ ~img_out.returned
    /\ LET r == array2compressed(img_in.array, img_in.quality, jpegxl_usable,
                                 img_in.jpg_fails) IN
           /\ img_out' = [mimetype |-> r.mimetype, result |-> r.result, returned |-> TRUE]
           /\ enc_calls' = r.calls
    /\ UNCHANGED <<img_in, jpegxl_usable, ctxVars, nbVars>>

(***************************************************************************)
(* The specifications.                                                     *)
(***************************************************************************)
IdleCtxVars ==
    /\ builtins_print = "builtin"
    /\ installed0 = "builtin"
    /\ capture_print = [i \in Instances |-> FALSE]
    /\ prev_print = [i \in Instances |-> "None"]
    /\ buffer = [i \in Instances |-> <<>>]
    /\ sys_stdout = <<>>
    /\ hist = <<>>
    /\ call = Idle
    /\ prints = 0

InitCtx == InitCtxVars /\ IdleNbVars /\ IdleImgVars
NextCtx == CtxSetCapturePrint \/ CtxEnter \/ CtxExit \/ CtxPrint
SpecCtx == InitCtx /\ [][NextCtx]_vars

InitNb == IdleCtxVars /\ InitNbVars /\ IdleImgVars
NextNb == NbCall
SpecNb == InitNb /\ [][NextNb]_vars

InitImg == IdleCtxVars /\ IdleNbVars /\ InitImgVars
NextImg == ImgCall
SpecImg == InitImg /\ [][NextImg]_vars

Init == InitCtx
Next == NextCtx
Spec == SpecCtx

(***************************************************************************)
(* Properties of RFBOutputContext, checked under SpecCtx.                  *)
(***************************************************************************)
\* A call made by a capture-enabled instance.
Ev(op, i) == [op |-> op, inst |-> i, flag |-> TRUE]

Stderr(etype) == [stream |-> "stderr", text |-> FormatException(etype)]
Stdout(text)  == [stream |-> "stdout", text |-> text]

HasEntry(i, stream) == \E n \in 1..Len(buffer[i]) : buffer[i][n].stream = stream

\* C1: when one capture-enabled instance has been entered once and exited
\* once and no other instance was used, builtins.print is the function that
\* was installed before the entry and _prev_print is None again, whether
\* or not the body raised and whatever was printed in between.
C1_RestoredAfterScope ==
    \A i \in Instances :
        hist = <<Ev("enter", i), Ev("exit", i)>>
            => builtins_print = installed0 /\ prev_print[i] = "None"

\* C1, the case reached: a scope over a print function the application had
\* installed, with a captured print, left by an exception.
C1_Witness ==
    \E i \in Instances :
        /\ hist = <<Ev("enter", i), Ev("exit", i)>>
        /\ installed0 = "custom"
        /\ call.op = "exit" /\ call.etype = "ValueError"
        /\ HasEntry(i, "stdout")

\* C2: an __exit__ given an exception appends exactly one stderr entry, the
\* formatted traceback, to its own buffer and returns True; an __exit__
\* given no exception appends nothing and returns None.
C2_ExitReportsException ==
    [][\A i \in Instances :
          (hist' = Append(hist, Event("exit", i)) /\ call'.op = "exit")
              => IF call'.etype # "None"
                 THEN /\ buffer' = [buffer EXCEPT ![i] = Append(@, Stderr(call'.etype))]
                      /\ call'.ret = "True"
                      /\ call'.raised = "None"
                 ELSE /\ buffer' = buffer
                      /\ call'.ret = "None"
                      /\ call'.raised = "None"]_vars

\* C2, the case reached: an __exit__ given a ValueError has returned True
\* and left the traceback as the last entry of its buffer.
C2_Witness ==
    \E i \in Instances :
        /\ call.op = "exit" /\ call.inst = i /\ call.etype = "ValueError"
        /\ call.ret = "True"
        /\ buffer[i] # <<>>
        /\ buffer[i][Len(buffer[i])] = Stderr("ValueError")

\* C3: while one capture-enabled instance is the only one inside its scope,
\* every call of the process-wide print appends one stdout entry holding
\* the standard text of its arguments to that instance's buffer and to no
\* other, and leaves builtins.print alone; once the scope is left, a print
\* call appends nothing to the instance's buffer.
C3_PrintCaptured ==
    [][\A i \in Instances :
          (call'.op = "print" /\ prints' = prints + 1)
              => /\ hist = <<Ev("enter", i)>>
                      => /\ buffer' = [buffer EXCEPT ![i] =
                                Append(@, Stdout(PrintText(call'.args, call'.kwargs)))]
                         /\ builtins_print' = builtins_print
                         /\ call'.raised = "None"
                 /\ hist = <<Ev("enter", i), Ev("exit", i)>>
                      => buffer'[i] = buffer[i]]_vars

\* C8: __enter__ installs the instance's print exactly when capture_print
\* is set; an instance that did not activate changes nothing on __exit__;
\* an instance that activated restores the saved function on __exit__ and
\* clears its saved reference, whatever capture_print is at that time.
C8_TwoStateMachine ==
    [][\A i \in Instances :
          /\ hist' = Append(hist, Event("enter", i))
                => IF capture_print[i]
                   THEN builtins_print' = i /\ prev_print'[i] = builtins_print
                   ELSE UNCHANGED <<builtins_print, prev_print>>
          /\ hist' = Append(hist, Event("exit", i))
                => IF prev_print[i] # "None"
                   THEN builtins_print' = prev_print[i] /\ prev_print'[i] = "None"
                   ELSE UNCHANGED <<builtins_print, prev_print>>]_vars

Nested(a, b)      == <<Ev("enter", a), Ev("enter", b), Ev("exit", b), Ev("exit", a)>>
Interleaved(a, b) == <<Ev("enter", a), Ev("enter", b), Ev("exit", a), Ev("exit", b)>>

\* C9 as stated: after two distinct capture-enabled instances have overlapped,
\* in the nested or in the interleaved order, builtins.print is not the
\* function that was installed before the first entry.
C9_OverlapCorrupts ==
    \A a \in Instances, b \in Instances :
        (a # b /\ hist \in {Nested(a, b), Interleaved(a, b)})
            => builtins_print # installed0

\* C9 as amended: the interleaved order leaves the print of the first
\* instance installed; the nested order restores the function that was
\* installed before the first entry. Both leave every _prev_print None.
C9_OnlyInterleavedCorrupts ==
    \A a \in Instances, b \in Instances :
        a # b =>
            /\ hist = Interleaved(a, b)
                  => /\ builtins_print = a
                     /\ builtins_print # installed0
                     /\ prev_print[a] = "None" /\ prev_print[b] = "None"
            /\ hist = Nested(a, b)
                  => /\ builtins_print = installed0
                     /\ prev_print[a] = "None" /\ prev_print[b] = "None"

\* C9, the case reached: A and B have overlapped in the interleaved order.
C9_Witness ==
    hist = Interleaved("A", "B") /\ builtins_print = "A"

\* The calls so far are all calls of instance i, made with capture_print set.
OwnEvents(i) ==
    \A n \in 1..Len(hist) : hist[n].inst = i /\ hist[n].flag

\* Every entry of instance i was left before the next one.
Alternating(i) ==
    /\ OwnEvents(i)
    /\ \A n \in 1..Len(hist) :
          hist[n].op = IF n % 2 = 1 THEN "enter" ELSE "exit"

\* C10 as stated: after any matched sequence of entries and exits of one
\* capture-enabled instance, re-entrant ones included, builtins.print is the
\* function installed before the first entry and _prev_print is None.
C10_MatchedRestores ==
    \A i \in Instances :
        (hist # <<>> /\ OwnEvents(i) /\ Depth(i) = 0)
            => builtins_print = installed0 /\ prev_print[i] = "None"

\* C10 as amended: that holds when every entry is left before the next
\* one; after the re-entrant sequence enter, enter, exit, exit the
\* instance's own print stays installed, with _prev_print None.
C10_UnnestedRestores ==
    \A i \in Instances :
        /\ (hist # <<>> /\ Alternating(i) /\ Depth(i) = 0)
              => builtins_print = installed0 /\ prev_print[i] = "None"
        /\ hist = <<Ev("enter", i), Ev("enter", i), Ev("exit", i), Ev("exit", i)>>
              => builtins_print = i /\ prev_print[i] = "None"

\* C10, the case reached: one instance entered and left twice in a row.
C10_Witness ==
    \E i \in Instances :
        hist = <<Ev("enter", i), Ev("exit", i), Ev("enter", i), Ev("exit", i)>>

(***************************************************************************)
(* Properties of remove_rfb_models_from_nb, checked under SpecNb.          *)
(***************************************************************************)
Keys(d)   == {d.v[n][1] : n \in 1..Len(d.v)}
KeySeq(d) == [n \in 1..Len(d.v) |-> d.v[n][1]]

Without(d, key) == PyDict(SelectSeq(d.v, LAMBDA kv : kv[1] # key))

\* The mapping d has a non-empty text/html entry whose first element
\* contains the marker.
SnapshotMarked(d) ==
    /\ HasKey(d, TextHtml)
    /\ LET h == DictGet(d, TextHtml, PyNone) IN
          CASE h.t = "list" -> /\ h.v # <<>>
                               /\ h.v[1].t = "str"
                               /\ IsSubstring(Marker, h.v[1].v)
            [] h.t = "str"  -> h.v # <<>> /\ IsSubstring(Marker, <<h.v[1]>>)
            [] OTHER        -> FALSE

IsList(x) == x.t = "list"
IsDict(x) == x.t = "dict"

CellsOf(doc)   == DictGet(doc, "cells", PyNone)
OutputsOf(c)   == DictGet(c, "outputs", PyNone)
DataOf(o)      == DictGet(o, "data", PyNone)
CellAt(doc, c) == CellsOf(doc).v[c]
OutputAt(doc, c, o) == OutputsOf(CellAt(doc, c)).v[o]

\* The places <<c, o>> of the "data" mappings of doc that lie under
\* cells -> outputs -> data.
DataPlaces(doc) ==
    IF ~IsList(CellsOf(doc)) THEN {}
    ELSE UNION { IF IsDict(CellAt(doc, c)) /\ IsList(OutputsOf(CellAt(doc, c)))
                 THEN { <<c, o>> : o \in { k \in 1..Len(OutputsOf(CellAt(doc, c)).v) :
                                            /\ IsDict(OutputAt(doc, c, k))
                                            /\ IsDict(DataOf(OutputAt(doc, c, k)))
                                            /\ Truthy(DataOf(OutputAt(doc, c, k))) } }
                 ELSE {}
               : c \in 1..Len(CellsOf(doc).v) }

DataAt(doc, p) == DataOf(OutputAt(doc, p[1], p[2]))

\* C4: after a call that returned, every data mapping under cells ->
\* outputs -> data has lost its widget-view key exactly when it had one next
\* to a text/html entry whose first element contains the marker, and is
\* otherwise as it was: text/html and every other key stay.
C4_DataPruned ==
    nb_call = "returned" =>
        \A p \in DataPlaces(nb0) :
            DataAt(nb, p) = IF HasKey(DataAt(nb0, p), WidgetView)
                                  /\ SnapshotMarked(DataAt(nb0, p))
                            THEN Without(DataAt(nb0, p), WidgetView)
                            ELSE DataAt(nb0, p)

\* C4, the case reached: one output of a cell lost its widget-view key and
\* kept text/html, and a sibling output without the marker kept both keys.
C4_Witness ==
    /\ nb_call = "returned"
    /\ \E p \in DataPlaces(nb0), q \in DataPlaces(nb0) :
          /\ p[1] = q[1] /\ p[2] # q[2]
          /\ HasKey(DataAt(nb0, p), WidgetView) /\ SnapshotMarked(DataAt(nb0, p))
          /\ ~HasKey(DataAt(nb, p), WidgetView) /\ HasKey(DataAt(nb, p), TextHtml)
          /\ HasKey(DataAt(nb0, q), WidgetView) /\ HasKey(DataAt(nb0, q), TextHtml)
          /\ ~SnapshotMarked(DataAt(nb0, q))
          /\ HasKey(DataAt(nb, q), WidgetView) /\ HasKey(DataAt(nb, q), TextHtml)

RECURSIVE MappingKept(_, _, _, _)
RECURSIVE OutputKept(_, _, _)

\* The mapping a is the mapping b with nothing added, replaced or removed,
\* but for widget-view keys removed from mappings that carry the marker:
\* from data mappings, and from the other mappings only if outer is TRUE.
MappingKept(a, b, level, outer) ==
    IF ~IsDict(b) THEN a = b
    ELSE /\ IsDict(a)
         /\ LET lost == Keys(b) \ Keys(a) IN
               /\ lost \subseteq {WidgetView}
               /\ lost # {} => (level = "data" \/ outer) /\ SnapshotMarked(b)
               /\ KeySeq(a) = SelectSeq(KeySeq(b), LAMBDA k : k \notin lost)
         /\ \A n \in 1..Len(a.v) :
               LET k  == a.v[n][1]
                   va == a.v[n][2]
                   vb == DictGet(b, k, PyNone)
               IN  IF k = "cells" /\ IsList(vb)
                   THEN /\ IsList(va) /\ Len(va.v) = Len(vb.v)
                        /\ \A m \in 1..Len(vb.v) : MappingKept(va.v[m], vb.v[m], level, outer)
                   ELSE IF k = "outputs" /\ IsList(vb)
                   THEN /\ IsList(va) /\ Len(va.v) = Len(vb.v)
                        /\ \A m \in 1..Len(vb.v) : OutputKept(va.v[m], vb.v[m], outer)
                   ELSE va = vb

\* The output mapping a is the output mapping b, but for its data.
OutputKept(a, b, outer) ==
    IF ~IsDict(b) THEN a = b
    ELSE /\ IsDict(a)
         /\ KeySeq(a) = KeySeq(b)
         /\ \A n \in 1..Len(b.v) :
               IF b.v[n][1] = "data"
               THEN MappingKept(a.v[n][2], b.v[n][2], "data", outer)
               ELSE a.v[n][2] = b.v[n][2]

\* C5 as stated: whatever the document, no key is removed from the
\* top-level mapping, a cell mapping or an output mapping, no key but
\* widget-view is removed anywhere, and nothing is added or replaced.
C5_OutsideDataUntouched ==
    nb_call # "ready" => MappingKept(nb, nb0, "outer", FALSE)

\* C5 as amended: no key is removed from an output mapping, no key but
\* widget-view is removed anywhere and nothing is added or replaced; the
\* top-level mapping and the cell mappings are pruned as a data mapping is:
\* after a call that returned they have lost a widget-view key that stood
\* next to a text/html entry with the marker.
C5_OnlyWidgetViewPruned ==
    /\ nb_call # "ready" => MappingKept(nb, nb0, "outer", TRUE)
    /\ nb_call = "returned" =>
          /\ SnapshotMarked(nb0) => ~HasKey(nb, WidgetView)
          /\ IsList(CellsOf(nb0)) =>
                \A c \in 1..Len(CellsOf(nb0).v) :
                    (IsDict(CellAt(nb0, c)) /\ SnapshotMarked(CellAt(nb0, c)))
                        => ~HasKey(CellAt(nb, c), WidgetView)

\* C5, the case reached: the top-level mapping lost its widget-view key,
\* and an output mapping with the two keys kept both.
C5_Witness ==
    /\ nb_call = "returned"
    /\ HasKey(nb0, WidgetView) /\ ~HasKey(nb, WidgetView)
    /\ IsList(CellsOf(nb0)) /\ CellsOf(nb0).v # <<>>
    /\ IsDict(CellAt(nb0, 1)) /\ IsList(OutputsOf(CellAt(nb0, 1)))
    /\ \E o \in 1..Len(OutputsOf(CellAt(nb0, 1)).v) :
          /\ IsDict(OutputAt(nb0, 1, o))
          /\ HasKey(OutputAt(nb0, 1, o), WidgetView)
          /\ SnapshotMarked(OutputAt(nb0, 1, o))
          /\ OutputAt(nb, 1, o) = OutputAt(nb0, 1, o)

\* C6: the call never raises, whatever the document.
C6_NeverRaises == nb_call \in {"ready", "returned"}

(***************************************************************************)
(* Properties of array2compressed, checked under SpecImg.                  *)
(***************************************************************************)
HasAlpha(array) == Len(array) = 3 /\ array[3] = 4

\* The array without its alpha channel.
Opaque(array) == IF HasAlpha(array) THEN SubSeq(array, 1, 2) \o <<3>> ELSE array

Called(fn) == \E n \in 1..Len(enc_calls) : enc_calls[n].fn = fn

\* C7: the first matching path decides: JPEG-XL when usable, lossless
\* exactly when quality >= 100; else PNG when quality >= 100, with no call of
\* the JPEG encoder; else JPEG, or PNG when the JPEG encoder returns None.
\* Every encoder called gets the array without its alpha channel.
C7_FirstMatch ==
    img_out.returned =>
        LET q == img_in.quality
            a == Opaque(img_in.array)
        IN  /\ \A n \in 1..Len(enc_calls) : enc_calls[n].array = a
            /\ IF jpegxl_usable
               THEN /\ enc_calls = <<[fn |-> "jpegxl_encode", array |-> a]>>
                    /\ img_out.result.codec = "jxl"
                    /\ img_out.result.lossless = (q >= 100)
               ELSE IF q >= 100
               THEN /\ img_out.mimetype = "image/png"
                    /\ img_out.result = [codec |-> "png", array |-> a]
                    /\ ~Called("array2jpg")
               ELSE IF ~img_in.jpg_fails
               THEN /\ img_out.mimetype = "image/jpeg"
                    /\ img_out.result = [codec |-> "jpeg", array |-> a, quality |-> q]
                    /\ ~Called("array2png")
               ELSE /\ img_out.mimetype = "image/png"
                    /\ img_out.result = [codec |-> "png", array |-> a]
                    /\ Called("array2jpg")

\* C7, the case reached: no JPEG-XL, a quality below 100, a JPEG encoder that
\* returns None and an array with an alpha channel: PNG of three channels.
C7_Witness ==
    /\ img_out.returned
    /\ ~jpegxl_usable /\ img_in.quality = 99 /\ img_in.jpg_fails
    /\ HasAlpha(img_in.array)
    /\ img_out.mimetype = "image/png"
    /\ img_out.result.array[3] = 3
====
